---- MODULE Spec2Model ----
(***************************************************************************)
(* A model of the `uid` crate (src/src/lib.rs): the IdImpl! macro, its     *)
(* instantiations IdU8 and IdU16, and callers on several threads.          *)
(*                                                                         *)
(* One call of new() is two steps of its thread: the atomic fetch_add on   *)
(* the static NEXT_ID (lib.rs:98), and then the thread-local rest of the   *)
(* function (assert_ne! and new_unchecked, lib.rs:99-108).  Other threads  *)
(* may run between the two.  Identifiers are also compared (the derived    *)
(* traits) and rendered (Display, Debug), the latter for Id as well.       *)
(***************************************************************************)
EXTENDS Integers, FiniteSets, Sequences, TLC

\* ------------------------------------------------------------- bounds
NumThreads == 2      \* threads that call into the crate
MaxCalls == 2        \* Spec: constructions (counted or raw), over all types
MaxValueCalls == 2   \* SpecValue: constructions (counted or raw), over all types
Window == 2          \* SpecExhaust: free interleaving starts this many draws before 2^8
Extra == 1           \* SpecExhaust: draws explored beyond 2^8

\* ------------------------------------------------------------- types
Threads == 1..NumThreads
MainThread == CHOOSE t \in Threads : \A u \in Threads : t <= u

\* The macro instantiations that are modelled (lib.rs:212, 220).
Names == {"IdU8", "IdU16"}
\* Marker types T a caller instantiates the generic struct with.
Markers == {"T", "U"}
\* The two counted construction paths: new() and Default::default().
Vias == {"new", "default"}
\* Raw values handed to new_unchecked directly (the tests use 42, 43, 1337);
\* never zero: that is the function's safety precondition (lib.rs:82).
RawValues == {1, 42}

\* Width in bits of $int_type.
Bits(n) == CASE n = "IdU8" -> 8 [] n = "IdU16" -> 16

Modulus(n) == 2 ^ Bits(n)

\* The wrapping addition of fetch_add on $atomic_type.  (Faulty variant: the
\* addition saturates.)
saturating_add(n, x) == IF x + 1 >= Modulus(n) THEN Modulus(n) - 1 ELSE x + 1
wrapping_add(n, x) == (x + 1) % Modulus(n)

\* `static NEXT_ID` (lib.rs:96): which static a call of new() uses.  A static
\* item inside a generic impl is one item per macro expansion: it is shared
\* by every marker T and by both construction paths.
\* (Faulty variants: one static per marker; one static per construction path.)
Static_perMarker(n, m, via) == <<n, m, "*">>
Static_perVia(n, m, via) == <<n, "*", via>>
Static(n, m, via) == <<n, "*", "*">>

StaticKeys == Names \X (Markers \cup {"*"}) \X (Vias \cup {"*"})

\* fetch_add(1, Relaxed): the value stored, and the value returned (the
\* previous one).  (Faulty variants first: no increment; increment by two;
\* the new value returned; a decrement.)
fetch_add_noinc(n, cur) == cur
fetch_sub_store(n, cur) == (cur + Modulus(n) - 1) % Modulus(n)
fetch_add_by2(n, cur) == wrapping_add(n, wrapping_add(n, cur))
fetch_add_store(n, cur) == wrapping_add(n, cur)

fetch_add_post(n, cur) == wrapping_add(n, cur)
fetch_add_result(n, cur) == cur

\* assert_ne!(id, 0, ...): TRUE when the assertion passes.  (Faulty variant:
\* the assertion compiled out; the greatest value of the 8 bit type rejected
\* as well.)
assert_ne_off(left, right) == TRUE
assert_ne_max(left, right) == left # right /\ left + 1 # Modulus("IdU8")
assert_ne(left, right) == left # right

\* An identifier: the struct's fields, with the type name it belongs to.
NoId == [name |-> "none", id |-> 0, phantom |-> "none"]

\* new_unchecked(id): wraps the integer, no check, no counter.
new_unchecked(n, m, v) == [name |-> n, id |-> v, phantom |-> m]

\* get(self): the wrapped integer.  (Faulty variant: off by one.)
get_pred(slf) == slf.id - 1
get(slf) == slf.id

\* #[derive(Eq, Ord, PartialEq, PartialOrd)] (lib.rs:65): the derived
\* comparisons go through the fields in their order, `id` and then `phantom`.
\* NonZero integers compare as their integers; two PhantomData<T> are always
\* equal.
cmp_int(x, y) == IF x < y THEN "Less" ELSE IF x > y THEN "Greater" ELSE "Equal"

cmp_phantom(p, q) == "Equal"

eq_phantom(p, q) == TRUE

\* (Faulty variant: the operands taken in the wrong order.)
cmp_swapped(a, b) ==
  IF cmp_int(b.id, a.id) # "Equal" THEN cmp_int(b.id, a.id)
  ELSE cmp_phantom(b.phantom, a.phantom)
cmp(a, b) ==
  IF cmp_int(a.id, b.id) # "Equal" THEN cmp_int(a.id, b.id)
  ELSE cmp_phantom(a.phantom, b.phantom)

eq(a, b) == a.id = b.id /\ eq_phantom(a.phantom, b.phantom)

\* `a < b` of PartialOrd: partial_cmp(a, b) == Some(Less).
lt(a, b) == cmp(a, b) = "Less"

\* Text is a sequence of characters.  The decimal rendering of an unsigned
\* integer, as `{}` and `{:?}` give it for the NonZero field `id`: the digits,
\* most significant first, no sign, no padding.
Digits == <<"0", "1", "2", "3", "4", "5", "6", "7", "8", "9">>

Digit(d) == Digits[d + 1]

RECURSIVE fmt_decimal(_)
fmt_decimal(v) ==
  IF v < 10 THEN <<Digit(v)>> ELSE fmt_decimal(v \div 10) \o <<Digit(v % 10)>>

\* stringify!($name): the name of the struct the macro defines, without its
\* type parameter.
stringify(n) ==
  CASE n = "Id" -> <<"I", "d">>
    [] n = "IdU8" -> <<"I", "d", "U", "8">>
    [] n = "IdU16" -> <<"I", "d", "U", "1", "6">>

\* PhantomData<T> as `{:?}` renders it.
phantom_debug(m) ==
  <<"P", "h", "a", "n", "t", "o", "m", "D", "a", "t", "a", "<", m, ">">>

\* Debug::fmt: f.debug_struct(stringify!($name)).field("id", &self.id).finish()
\* (Faulty variant first: what #[derive(Debug)] would render, every field.)
Debug_fmt_derived(slf) ==
  stringify(slf.name) \o <<" ", "{", " ">>
    \o <<"i", "d">> \o <<":", " ">> \o fmt_decimal(slf.id)
    \o <<",", " ">> \o <<"p", "h", "a", "n", "t", "o", "m">> \o <<":", " ">>
    \o phantom_debug(slf.phantom)
    \o <<" ", "}">>
Debug_fmt(slf) ==
  stringify(slf.name) \o <<" ", "{", " ">>
    \o <<"i", "d">> \o <<":", " ">> \o fmt_decimal(slf.id)
    \o <<" ", "}">>

\* Display::fmt: write!(f, "{}", self.id).  (Faulty variant first: the debug
\* form written instead.)
Display_fmt_asDebug(slf) == Debug_fmt(slf)
Display_fmt(slf) == fmt_decimal(slf.id)

\* What the caller last observed of identifiers (a comparison or a rendering).
NoOut == [op |-> "none", a |-> NoId, b |-> NoId, eq |-> FALSE, lt |-> FALSE, text |-> <<>>]

NoCall == [name |-> "none", marker |-> "none", via |-> "none"]
NoValue == 0 - 1
NotMade == [how |-> "none", v |-> 0]

Families == Names \X Markers

VARIABLES
  NEXT_ID,     \* the statics: StaticKeys -> value of the atomic
  pc,          \* per thread: "idle", or "fetched" (inside new(), after fetch_add)
  call,        \* per thread: its latest counted call (type, marker, path)
  id,          \* per thread: the local `id` of new()
  self,        \* per thread: the identifier the caller holds (its latest)
  got,         \* per thread: what get() returned for `self` since its latest call, or NoValue
  aborted,     \* TRUE once a panic has aborted the process
  \* history
  res,         \* per thread: how its latest construction ended
  made,        \* per thread: how `self` was made and from which integer
  seq,         \* per thread: its latest call was the seq-th draw on its type
  late,        \* per thread: its latest call drew after a failure of its family
  intervened,  \* per thread: since its latest draw another thread drew, or was in a call at that draw
  alone,       \* per thread: no such thread from the draw of `self` to its latest draw
  fetches,     \* per type: number of fetch_adds done
  overflowed,  \* per type: the counter has wrapped
  exhausted,   \* per family: some call has failed
  issued,      \* per family and path: the values returned
  nret,        \* per family: number of identifiers returned
  firstDraw,   \* per family: the value its first call drew (NoValue: none yet)
  priorDraws,  \* per family: draws on the type before the family's first
  nraw,        \* number of direct new_unchecked calls
  out          \* the latest observation made since the latest construction step

vars == <<NEXT_ID, pc, call, id, self, got, aborted, res, made, seq, late,
          intervened, alone, fetches, overflowed, exhausted, issued, nret, firstDraw,
          priorDraws, nraw, out>>

\* `<$atomic_type>::new(1)` (lib.rs:96).
NEXT_ID_init == 1

Init ==
  /\ NEXT_ID = [k \in StaticKeys |-> NEXT_ID_init]
  /\ pc = [t \in Threads |-> "idle"]
  /\ call = [t \in Threads |-> NoCall]
  /\ id = [t \in Threads |-> 0]
  /\ self = [t \in Threads |-> NoId]
  /\ got = [t \in Threads |-> NoValue]
  /\ aborted = FALSE
  /\ res = [t \in Threads |-> "none"]
  /\ made = [t \in Threads |-> NotMade]
  /\ seq = [t \in Threads |-> 0]
  /\ late = [t \in Threads |-> FALSE]
  /\ intervened = [t \in Threads |-> FALSE]
  /\ alone = [t \in Threads |-> FALSE]
  /\ fetches = [n \in Names |-> 0]
  /\ overflowed = [n \in Names |-> FALSE]
  /\ exhausted = [f \in Families |-> FALSE]
  /\ issued = [k \in Names \X Markers \X Vias |-> {}]
  /\ nret = [f \in Families |-> 0]
  /\ firstDraw = [f \in Families |-> NoValue]
  /\ priorDraws = [f \in Families |-> 0]
  /\ nraw = 0
  /\ out = NoOut

\* new(), first step: `let id = NEXT_ID.fetch_add(1, Ordering::Relaxed)`, on
\* the static s.
NewFetchOn(s, t, n, m, via) ==
  /\ ~aborted
  /\ pc[t] = "idle"
  /\ LET cur == NEXT_ID[s]
         drawn == fetch_add_result(n, cur)
         stored == fetch_add_store(n, cur)
     IN /\ NEXT_ID' = [NEXT_ID EXCEPT ![s] = stored]
        /\ id' = [id EXCEPT ![t] = drawn]
        /\ overflowed' = [overflowed EXCEPT ![n] = @ \/ stored < cur]
        /\ firstDraw' = [firstDraw EXCEPT ![<<n, m>>] = IF @ = NoValue THEN drawn ELSE @]
        /\ priorDraws' = [priorDraws EXCEPT ![<<n, m>>] =
                            IF firstDraw[<<n, m>>] = NoValue THEN fetches[n] ELSE @]
  /\ pc' = [pc EXCEPT ![t] = "fetched"]
  /\ call' = [call EXCEPT ![t] = [name |-> n, marker |-> m, via |-> via]]
  /\ fetches' = [fetches EXCEPT ![n] = @ + 1]
  /\ seq' = [seq EXCEPT ![t] = fetches[n] + 1]
  /\ late' = [late EXCEPT ![t] = exhausted[<<n, m>>]]
  /\ res' = [res EXCEPT ![t] = "none"]
  /\ got' = [got EXCEPT ![t] = NoValue]
  /\ alone' = [alone EXCEPT ![t] =
                  (made[t].how \in Vias) /\ (~intervened[t])
                    /\ (res[t] = "panic" => alone[t])]
  /\ intervened' = [u \in Threads |->
                      IF u = t THEN \E w \in Threads \ {t} : pc[w] = "fetched"
                      ELSE IF made[u].how \in Vias \/ pc[u] = "fetched" THEN TRUE
                      ELSE intervened[u]]
  /\ out' = NoOut
  /\ UNCHANGED <<self, aborted, made, exhausted, issued, nret, nraw>>

NewFetch(t, n, m, via) == NewFetchOn(Static(n, m, via), t, n, m, via)

\* new(), second step when the assertion passes: `Self::new_unchecked(id)`.
\* (Faulty variant first: the call waits until no other call is in flight.)
NewReturn_waiting(t) ==
  /\ ~aborted
  /\ pc[t] = "fetched"
  /\ \A u \in Threads \ {t} : pc[u] # "fetched"
  /\ assert_ne(id[t], 0)
  /\ LET c == call[t]
         f == <<c.name, c.marker>>
     IN /\ self' = [self EXCEPT ![t] = new_unchecked(c.name, c.marker, id[t])]
        /\ made' = [made EXCEPT ![t] = [how |-> c.via, v |-> id[t]]]
        /\ issued' = [issued EXCEPT ![<<c.name, c.marker, c.via>>] = @ \cup {id[t]}]
        /\ nret' = [nret EXCEPT ![f] = @ + 1]
  /\ res' = [res EXCEPT ![t] = "ok"]
  /\ got' = [got EXCEPT ![t] = NoValue]
  /\ pc' = [pc EXCEPT ![t] = "idle"]
  /\ id' = [id EXCEPT ![t] = 0]
  /\ out' = NoOut
  /\ UNCHANGED <<NEXT_ID, call, aborted, intervened, alone, seq, late, fetches,
                 overflowed, exhausted,
                 firstDraw, priorDraws, nraw>>

NewReturn(t) ==
  /\ ~aborted
  /\ pc[t] = "fetched"
  /\ assert_ne(id[t], 0)
  /\ LET c == call[t]
         f == <<c.name, c.marker>>
     IN /\ self' = [self EXCEPT ![t] = new_unchecked(c.name, c.marker, id[t])]
        /\ made' = [made EXCEPT ![t] = [how |-> c.via, v |-> id[t]]]
        /\ issued' = [issued EXCEPT ![<<c.name, c.marker, c.via>>] = @ \cup {id[t]}]
        /\ nret' = [nret EXCEPT ![f] = @ + 1]
  /\ res' = [res EXCEPT ![t] = "ok"]
  /\ got' = [got EXCEPT ![t] = NoValue]
  /\ pc' = [pc EXCEPT ![t] = "idle"]
  /\ id' = [id EXCEPT ![t] = 0]
  /\ out' = NoOut
  /\ UNCHANGED <<NEXT_ID, call, aborted, intervened, alone, seq, late, fetches,
                 overflowed, exhausted,
                 firstDraw, priorDraws, nraw>>

\* What a panic does is the build's and the caller's choice: the caller
\* catches the unwinding and goes on; the thread ends (its slot then stands
\* for a thread spawned later, which holds nothing); or the process aborts.
PanicOutcomes == {"caught", "thread_exit", "abort"}

\* new(), second step when the assertion fails: assert_ne! panics.
NewPanic(t, outcome) ==
  /\ ~aborted
  /\ pc[t] = "fetched"
  /\ ~assert_ne(id[t], 0)
  /\ exhausted' = [exhausted EXCEPT ![<<call[t].name, call[t].marker>>] = TRUE]
  /\ res' = [res EXCEPT ![t] = "panic"]
  /\ aborted' = (outcome = "abort")
  /\ IF outcome = "caught"
       THEN UNCHANGED <<self, made, got, intervened, alone>>
       ELSE /\ self' = [self EXCEPT ![t] = NoId]
            /\ made' = [made EXCEPT ![t] = NotMade]
            /\ got' = [got EXCEPT ![t] = NoValue]
            /\ intervened' = [intervened EXCEPT ![t] = FALSE]
            /\ alone' = [alone EXCEPT ![t] = FALSE]
  /\ pc' = [pc EXCEPT ![t] = "idle"]
  /\ id' = [id EXCEPT ![t] = 0]
  /\ out' = NoOut
  /\ UNCHANGED <<NEXT_ID, call, seq, late, fetches, overflowed, issued, nret,
                 firstDraw, priorDraws, nraw>>

\* A direct call of new_unchecked(v) (as the crate's tests do).  (Faulty
\* variant first: it advances the counter.)
NewUnchecked_advancing(t, n, m, v) ==
  /\ ~aborted
  /\ pc[t] = "idle"
  /\ NEXT_ID' = [NEXT_ID EXCEPT ![Static(n, m, "new")] = wrapping_add(n, @)]
  /\ self' = [self EXCEPT ![t] = new_unchecked(n, m, v)]
  /\ made' = [made EXCEPT ![t] = [how |-> "raw", v |-> v]]
  /\ nraw' = nraw + 1
  /\ res' = [res EXCEPT ![t] = "raw"]
  /\ got' = [got EXCEPT ![t] = NoValue]
  /\ intervened' = [intervened EXCEPT ![t] = FALSE]
  /\ alone' = [alone EXCEPT ![t] = FALSE]
  /\ call' = [call EXCEPT ![t] = NoCall]
  /\ seq' = [seq EXCEPT ![t] = 0]
  /\ late' = [late EXCEPT ![t] = FALSE]
  /\ out' = NoOut
  /\ UNCHANGED <<pc, id, aborted, fetches, overflowed,
                 exhausted, issued, nret, firstDraw, priorDraws>>

NewUnchecked(t, n, m, v) ==
  /\ ~aborted
  /\ pc[t] = "idle"
  /\ self' = [self EXCEPT ![t] = new_unchecked(n, m, v)]
  /\ made' = [made EXCEPT ![t] = [how |-> "raw", v |-> v]]
  /\ nraw' = nraw + 1
  /\ res' = [res EXCEPT ![t] = "raw"]
  /\ got' = [got EXCEPT ![t] = NoValue]
  /\ intervened' = [intervened EXCEPT ![t] = FALSE]
  /\ alone' = [alone EXCEPT ![t] = FALSE]
  /\ call' = [call EXCEPT ![t] = NoCall]
  /\ seq' = [seq EXCEPT ![t] = 0]
  /\ late' = [late EXCEPT ![t] = FALSE]
  /\ out' = NoOut
  /\ UNCHANGED <<NEXT_ID, pc, id, aborted, fetches, overflowed,
                 exhausted, issued, nret, firstDraw, priorDraws>>

\* self.get() on the identifier the thread holds.
Get(t) ==
  /\ ~aborted
  /\ pc[t] = "idle"
  /\ self[t] # NoId
  /\ got' = [got EXCEPT ![t] = get(self[t])]
  /\ UNCHANGED <<NEXT_ID, pc, call, id, self, aborted, res, made, seq, late,
                 intervened, alone, fetches, overflowed, exhausted, issued, nret,
                 firstDraw, priorDraws, nraw, out>>

\* `self[t] == self[u]` and `self[t] < self[u]`: thread t compares the
\* identifier it holds with the one thread u holds (identifiers are Copy and
\* are handed between threads).  Both are of one family: the derived impls
\* compare a type with itself only.
Compare(t, u) ==
  /\ ~aborted
  /\ pc[t] = "idle"
  /\ self[t] # NoId /\ self[u] # NoId
  /\ self[t].name = self[u].name /\ self[t].phantom = self[u].phantom
  /\ out' = [NoOut EXCEPT !.op = "cmp", !.a = self[t], !.b = self[u],
                          !.eq = eq(self[t], self[u]), !.lt = lt(self[t], self[u])]
  /\ UNCHANGED <<NEXT_ID, pc, call, id, self, got, aborted, res, made, seq, late,
                 intervened, alone, fetches, overflowed, exhausted, issued, nret,
                 firstDraw, priorDraws, nraw>>

\* format!("{}", self[t]) and format!("{:?}", self[t]).
Display(t) ==
  /\ ~aborted
  /\ pc[t] = "idle"
  /\ self[t] # NoId
  /\ out' = [NoOut EXCEPT !.op = "display", !.a = self[t], !.text = Display_fmt(self[t])]
  /\ UNCHANGED <<NEXT_ID, pc, call, id, self, got, aborted, res, made, seq, late,
                 intervened, alone, fetches, overflowed, exhausted, issued, nret,
                 firstDraw, priorDraws, nraw>>

Debug(t) ==
  /\ ~aborted
  /\ pc[t] = "idle"
  /\ self[t] # NoId
  /\ out' = [NoOut EXCEPT !.op = "debug", !.a = self[t], !.text = Debug_fmt(self[t])]
  /\ UNCHANGED <<NEXT_ID, pc, call, id, self, got, aborted, res, made, seq, late,
                 intervened, alone, fetches, overflowed, exhausted, issued, nret,
                 firstDraw, priorDraws, nraw>>

\* Default::default(): `Self::new()`.  (Faulty variant first: a counter of
\* its own.)
Default_ownCounter(t, n, m) ==
  NewFetchOn(Static_perVia(n, m, "default"), t, n, m, "default")
Default(t, n, m) == NewFetch(t, n, m, "default")

\* new() entered directly.
New(t, n, m) == NewFetch(t, n, m, "new")

RECURSIVE SumOver(_, _)
SumOver(f, S) == IF S = {} THEN 0 ELSE LET x == CHOOSE y \in S : TRUE
                                       IN f[x] + SumOver(f, S \ {x})
TotalFetches == SumOver(fetches, Names)

\* Spec: every type, marker, path and thread, for MaxCalls constructions.
Next ==
  \/ \E t \in Threads, n \in Names, m \in Markers :
       TotalFetches + nraw < MaxCalls /\ New(t, n, m)
  \/ \E t \in Threads, n \in Names, m \in Markers :
       TotalFetches + nraw < MaxCalls /\ Default(t, n, m)
  \/ \E t \in Threads : NewReturn(t)
  \/ \E t \in Threads, n \in Names, m \in Markers, v \in RawValues :
       TotalFetches + nraw < MaxCalls /\ NewUnchecked(t, n, m, v)
  \/ \E t \in Threads : Get(t)

Spec == Init /\ [][Next]_vars

\* SpecValue: identifiers are made (counted, or raw from the values the crate's
\* tests use), compared and rendered.
ValueNames == Names \cup {"Id"}
ValueRaws == {42, 43, 100, 1337}
InRange(n, v) == n \in Names => v < Modulus(n)

NextValue ==
  \/ \E t \in Threads, m \in Markers :
       TotalFetches + nraw < MaxValueCalls /\ New(t, "IdU8", m)
  \/ \E t \in Threads : NewReturn(t)
  \/ \E t \in Threads, n \in ValueNames, m \in Markers, v \in ValueRaws :
       TotalFetches + nraw < MaxValueCalls /\ InRange(n, v) /\ NewUnchecked(t, n, m, v)
  \/ \E t, u \in Threads : Compare(t, u)
  \/ \E t \in Threads : Display(t)
  \/ \E t \in Threads : Debug(t)

SpecValue == Init /\ [][NextValue]_vars

\* SpecExhaust: the 8 bit counter driven to its end and Extra draws beyond.
\* The main thread alone draws (IdU8<T>::new()) until Window draws before the
\* counter wraps; from there every thread and marker is free.
MayDraw(t, m) ==
  /\ fetches["IdU8"] < Modulus("IdU8") + Extra
  /\ \/ fetches["IdU8"] >= Modulus("IdU8") - 1 - Window
     \/ t = MainThread /\ m = "T"

NextExhaust ==
  \/ \E t \in Threads, m \in Markers : MayDraw(t, m) /\ New(t, "IdU8", m)
  \/ \E t \in Threads : NewReturn(t)
  \/ \E t \in Threads, o \in PanicOutcomes : NewPanic(t, o)

SpecExhaust == Init /\ [][NextExhaust]_vars

\* SpecLive: as SpecExhaust, with the scheduling of threads: a thread that
\* has done its fetch_add goes on to run the rest of new(), which is local to
\* it (a running thread is not held back for ever).  Nothing makes a caller
\* start a call.
LiveWindow == 1

MayDrawLive(t, m) ==
  /\ fetches["IdU8"] < Modulus("IdU8") + Extra
  /\ \/ fetches["IdU8"] >= Modulus("IdU8") - 1 - LiveWindow
     \/ t = MainThread /\ m = "T"

\* The rest of new() after the fetch_add: it returns or it panics.
Complete(t) == NewReturn(t) \/ \E o \in PanicOutcomes : NewPanic(t, o)

NextLive ==
  \/ \E t \in Threads, m \in Markers : MayDrawLive(t, m) /\ New(t, "IdU8", m)
  \/ \E t \in Threads : NewReturn(t)
  \/ \E t \in Threads, o \in PanicOutcomes : NewPanic(t, o)

Fairness == \A t \in Threads : WF_vars(Complete(t))

SpecLive == Init /\ [][NextLive]_vars /\ Fairness

\* ------------------------------------------------------------ history views
\* The values returned to a family, by either path.
Issued(n, m) == issued[<<n, m, "new">>] \cup issued[<<n, m, "default">>]

\* The values returned for a type, over all its markers.
IssuedOfType(n) == UNION {Issued(n, m) : m \in Markers}

RECURSIVE ReturnedOfType(_, _)
ReturnedOfType(n, M) == IF M = {} THEN 0
                        ELSE LET m == CHOOSE x \in M : TRUE
                             IN nret[<<n, m>>] + ReturnedOfType(n, M \ {m})

\* No call on type n is between its fetch_add and its end.
Quiescent(n) == \A t \in Threads : ~(pc[t] = "fetched" /\ call[t].name = n)

\* Thread t holds an identifier that a counted construction returned.
HoldsCounted(t) == res[t] = "ok" /\ made[t].how \in Vias

\* ------------------------------------------------------------------ claims

\* C1: while the counter of a type has not overflowed, the identifiers
\* returned for one (type, marker) family by any threads in any interleaving
\* are pairwise different: the set of the N returned values has N elements.
C1_Unique ==
  \A f \in Families :
    ~overflowed[f[1]] => Cardinality(Issued(f[1], f[2])) = nret[f]

\* C1 witness: two threads hold identifiers of one family, before overflow.
C1_Witness ==
  \E t, u \in Threads :
    /\ t # u /\ HoldsCounted(t) /\ HoldsCounted(u)
    /\ self[t].name = self[u].name /\ self[t].phantom = self[u].phantom
    /\ ~overflowed[self[t].name]
    /\ nret[<<self[t].name, self[t].phantom>>] >= 2

\* C2: an identifier returned by new() or default() never has the value
\* zero, at and after the overflow of the counter too.
C2_NonZero ==
  /\ \A t \in Threads : HoldsCounted(t) => self[t].id # 0 /\ get(self[t]) # 0
  /\ \A f \in Families : 0 \notin Issued(f[1], f[2])

\* C2 witness: an identifier was returned by a call made after the call
\* that drew zero.
C2_Witness ==
  \E t \in Threads :
    /\ HoldsCounted(t) /\ pc[t] = "idle"
    /\ overflowed[self[t].name] /\ seq[t] > Modulus(self[t].name)

\* C3: on the 8 bit type, from the fresh counter, the k-th call (in the order
\* of their draws) for k in 1..255 succeeds with the value k, and the 256th
\* call fails: it returns no identifier.
C3_First255 ==
  \A t \in Threads :
    call[t].name = "IdU8" =>
      /\ (pc[t] = "idle" /\ seq[t] \in 1..(Modulus("IdU8") - 1)) =>
           (res[t] = "ok" /\ self[t].id = seq[t] /\ self[t].name = "IdU8")
      /\ (pc[t] = "idle" /\ seq[t] = Modulus("IdU8")) => res[t] = "panic"

\* C3 witness: the 256th call has failed, and another thread holds the
\* value 255.
C3_Witness ==
  \E t, u \in Threads :
    /\ res[t] = "panic" /\ seq[t] = Modulus("IdU8") /\ call[t].name = "IdU8"
    /\ HoldsCounted(u) /\ self[u].id = Modulus("IdU8") - 1

\* C4 (as claimed): a call of a family that draws after a call of that family
\* has failed never returns an identifier.
C4_StaysExhausted ==
  \A t \in Threads : (late[t] /\ pc[t] = "idle") => res[t] # "ok"

\* C5 (as claimed): the first identifier of every (type, marker) family has
\* the value 1, whatever was created before for other markers.
C5_FirstIsOne ==
  \A f \in Families :
    firstDraw[f] \in Issued(f[1], f[2]) => firstDraw[f] = NEXT_ID_init

\* C5 (amended): the counter is one per type, shared by its markers: the
\* first identifier of a family has the value 1 plus the number of counted
\* constructions made before it for the same type with any marker, and
\* constructions for other types do not change it.
C5_SharedCounter ==
  \A f \in Families :
    firstDraw[f] # NoValue =>
      firstDraw[f] = (NEXT_ID_init + priorDraws[f]) % Modulus(f[1])

\* C5 witness: a family's first identifier was returned after a counted
\* construction for another marker of its type.
C5_Witness ==
  \E f \in Families :
    /\ firstDraw[f] \in Issued(f[1], f[2])
    /\ priorDraws[f] > 0
    /\ \E m \in Markers : m # f[2] /\ Issued(f[1], m) # {}

\* C6 (as claimed): when a thread is returned two identifiers of one family
\* by the counted constructor, one after the other, and no other thread was
\* in a call or drew from the first draw to the second return, the second
\* value is greater than the first.
C6_Increasing ==
  [][\A t \in Threads :
       ( /\ pc[t] = "fetched" /\ pc'[t] = "idle" /\ res'[t] = "ok"
         /\ made[t].how \in Vias
         /\ self[t].name = self'[t].name
         /\ self[t].phantom = self'[t].phantom
         /\ alone[t] /\ ~intervened[t] )
       => self'[t].id > self[t].id]_vars

\* C7 (as claimed): with no call in flight and before overflow, the values
\* returned to a family are exactly 1..N, N the number of its identifiers.
C7_FamilyDense ==
  \A f \in Families :
    (Quiescent(f[1]) /\ ~overflowed[f[1]]) =>
      Issued(f[1], f[2]) = 1..nret[f]

\* C7 (amended): every call draws the value before its increment by one, so
\* with no call in flight and N calls made on a type (N below its capacity),
\* the values returned over all markers of the type are exactly 1..N, each
\* once; one marker's values are among them, without repetition.
C7_TypeDense ==
  \A n \in Names :
    (Quiescent(n) /\ fetches[n] < Modulus(n)) =>
      /\ IssuedOfType(n) = 1..fetches[n]
      /\ ReturnedOfType(n, Markers) = fetches[n]
      /\ \A m \in Markers : Cardinality(Issued(n, m)) = nret[<<n, m>>]

\* C7 witness: both markers of a type hold values, none in flight.
C7_Witness ==
  \E n \in Names :
    /\ Quiescent(n) /\ fetches[n] < Modulus(n)
    /\ \A m \in Markers : Issued(n, m) # {}
    /\ \E m \in Markers : Issued(n, m) # 1..nret[<<n, m>>]

\* C8: new_unchecked neither reads nor advances the counter: the step leaves
\* every static unchanged, and the counter is always 1 plus the number of
\* counted draws, however many raw constructions were made.
C8_RawFrame ==
  /\ [](\A n \in Names :
          NEXT_ID[Static(n, "T", "new")] = (NEXT_ID_init + fetches[n]) % Modulus(n))
  /\ [][nraw' # nraw => NEXT_ID' = NEXT_ID]_vars

\* C8 witness: a counted construction has returned the very value that a raw
\* construction of the same family handed out.
C8_Witness ==
  \E t, u \in Threads :
    /\ made[t].how = "raw" /\ HoldsCounted(u)
    /\ self[t] = self[u]
    /\ nraw > 0

\* C9: default() draws from the counter new() draws from: the values the two
\* paths return for a family are disjoint and pairwise different, and a
\* default() call is returned the value of its place among the draws on the
\* type, as a new() call is.
C9_DefaultIsNew ==
  /\ \A f \in Families :
       ~overflowed[f[1]] =>
         /\ issued[<<f[1], f[2], "new">>] \cap issued[<<f[1], f[2], "default">>] = {}
         /\ Cardinality(Issued(f[1], f[2])) = nret[f]
  /\ \A t \in Threads :
       (HoldsCounted(t) /\ ~overflowed[self[t].name]) => self[t].id = seq[t]

\* C9 witness: one family holds values from both paths.
C9_Witness ==
  \E f \in Families :
    /\ issued[<<f[1], f[2], "new">>] # {}
    /\ issued[<<f[1], f[2], "default">>] # {}

\* C10: get() returns the integer the identifier was made from (the raw
\* value given to new_unchecked, or the value new() drew), and a get() step
\* changes neither the counter nor the identifier.
C10_Get ==
  /\ [](\A t \in Threads : got[t] # NoValue => got[t] = made[t].v)
  /\ [][\A t \in Threads :
          got'[t] # got[t] /\ got'[t] # NoValue =>
            NEXT_ID' = NEXT_ID /\ self' = self /\ fetches' = fetches]_vars

\* C10 witness: get() has answered for a raw and for a counted identifier.
C10_Witness ==
  \E t, u \in Threads :
    /\ got[t] # NoValue /\ made[t].how = "raw"
    /\ got[u] # NoValue /\ made[u].how \in Vias

\* C11: equality and order of two identifiers of one family follow their
\* numeric values alone: a == b exactly when a.get() = b.get(), and a < b
\* exactly when a.get() < b.get(); the marker adds nothing.
C11_ByValue ==
  out.op = "cmp" =>
    /\ out.eq <=> (get(out.a) = get(out.b))
    /\ out.lt <=> (get(out.a) < get(out.b))

\* C11 witness: two identifiers that new() returned to two threads were
\* compared, and the earlier one is the smaller.
C11_Witness ==
  /\ out.op = "cmp" /\ out.lt /\ ~out.eq /\ get(out.a) < get(out.b)
  /\ \E t, u \in Threads :
       /\ t # u /\ HoldsCounted(t) /\ HoldsCounted(u)
       /\ out.a = self[t] /\ out.b = self[u] /\ seq[t] < seq[u]

\* C12: no call blocks or waits: a call that has done its fetch_add can take
\* its remaining step whatever the other threads are doing, and every started
\* call ends, returning an identifier or failing (or the process is aborted by
\* a failing call's panic, which ends every thread).
C12_NoBlocking ==
  /\ [](\A t \in Threads : (pc[t] = "fetched" /\ ~aborted) => ENABLED Complete(t))
  /\ \A t \in Threads : (pc[t] = "fetched") ~> (pc[t] = "idle" \/ aborted)

\* C12 witness: a call that drew after another thread's call has returned
\* while that call is still in flight.
C12_Witness ==
  \E t, u \in Threads :
    /\ t # u /\ pc[t] = "idle" /\ res[t] = "ok"
    /\ pc[u] = "fetched" /\ seq[u] < seq[t]
    /\ call[t].name = call[u].name

\* Reading a text as a decimal numeral.
DigitValue(c) == CHOOSE d \in 0..9 : Digit(d) = c

RECURSIVE parse_decimal(_)
parse_decimal(txt) ==
  IF txt = <<>> THEN 0
  ELSE 10 * parse_decimal(SubSeq(txt, 1, Len(txt) - 1)) + DigitValue(txt[Len(txt)])

IsDecimal(txt) ==
  /\ Len(txt) >= 1
  /\ \A i \in 1..Len(txt) : \E d \in 0..9 : txt[i] = Digit(d)
  /\ Len(txt) > 1 => txt[1] # "0"

\* C13: the Display form of an identifier is the decimal digits of its value
\* and nothing else (the value 43 renders as "43").
C13_Display ==
  out.op = "display" =>
    /\ IsDecimal(out.text)
    /\ parse_decimal(out.text) = get(out.a)
    /\ get(out.a) = 43 => out.text = <<"4", "3">>

\* C13 witness: the identifier made from the raw value 43 was rendered.
C13_Witness ==
  /\ out.op = "display" /\ get(out.a) = 43 /\ out.text = <<"4", "3">>
  /\ \E t \in Threads : made[t].how = "raw" /\ self[t] = out.a

\* C14: the Debug form is "<TypeName> { id: <value> }" with the name of the
\* width's struct (Id and 42 give "Id { id: 42 }", IdU16 and 1337 give
\* "IdU16 { id: 1337 }"): the name tells the widths apart, and the marker is
\* not in the text.
C14_Debug ==
  out.op = "debug" =>
    /\ LET head == stringify(out.a.name) \o <<" ", "{", " ", "i", "d", ":", " ">>
           digits == SubSeq(out.text, Len(head) + 1, Len(out.text) - 2)
       IN /\ IsDecimal(digits) /\ parse_decimal(digits) = get(out.a)
          /\ out.text = head \o digits \o <<" ", "}">>
    /\ (out.a.name = "Id" /\ get(out.a) = 42) =>
         out.text = <<"I", "d", " ", "{", " ", "i", "d", ":", " ", "4", "2", " ", "}">>
    /\ (out.a.name = "IdU16" /\ get(out.a) = 1337) =>
         out.text = <<"I", "d", "U", "1", "6", " ", "{", " ", "i", "d", ":", " ",
                      "1", "3", "3", "7", " ", "}">>
    /\ \A n \in ValueNames \ {out.a.name}, m \in Markers :
         out.text # Debug_fmt(new_unchecked(n, m, get(out.a)))
    /\ \A m \in Markers : out.text = Debug_fmt(new_unchecked(out.a.name, m, get(out.a)))

\* C14 witness: the IdU16 made from the raw value 1337 was rendered.
C14_Witness ==
  /\ out.op = "debug" /\ out.a.name = "IdU16" /\ get(out.a) = 1337
  /\ Len(out.text) = 18

\* C16: new() takes effect at one instant between its start and its return:
\* before overflow, a call that starts after another call of its family has
\* returned (on any thread) draws a greater value than that call returned; in
\* particular the value is greater than the one the calling thread holds
\* from its previous call, whatever other threads drew in between.
C16_RealTimeOrder ==
  [][\A t \in Threads :
       (pc[t] = "idle" /\ pc'[t] = "fetched" /\ seq'[t] < Modulus(call'[t].name)) =>
         /\ \A v \in Issued(call'[t].name, call'[t].marker) : v < id'[t]
         /\ ( /\ made[t].how \in Vias
              /\ self[t].name = call'[t].name
              /\ self[t].phantom = call'[t].marker ) => self[t].id < id'[t]]_vars

\* C16 witness: before overflow a thread has drawn, with no call in flight
\* at its draw, after another thread was returned an identifier of the family.
C16_Witness ==
  \E t, u \in Threads :
    /\ t # u /\ pc[t] = "fetched" /\ ~intervened[t]
    /\ seq[t] < Modulus(call[t].name)
    /\ HoldsCounted(u) /\ pc[u] = "idle"
    /\ self[u].name = call[t].name /\ self[u].phantom = call[t].marker
    /\ self[u].id < id[t]

\* The counter of type n.
Counter(n) == NEXT_ID[Static(n, "T", "new")]

\* C17: the counter is always 1 plus the number of calls that have done
\* their increment (failed calls too) modulo 2^width; before the first
\* overflow it is greater than every value issued or drawn so far; and it
\* never decreases except by wrapping from 2^width - 1 to 0.
C17_Counter ==
  /\ [](\A n \in Names :
          /\ Counter(n) = (1 + fetches[n]) % Modulus(n)
          /\ ~overflowed[n] =>
                /\ \A v \in IssuedOfType(n) : v < Counter(n)
                /\ \A t \in Threads :
                     (pc[t] = "fetched" /\ call[t].name = n) => id[t] < Counter(n))
  /\ [][\A k \in StaticKeys :
          \/ NEXT_ID'[k] >= NEXT_ID[k]
          \/ NEXT_ID[k] = Modulus(k[1]) - 1 /\ NEXT_ID'[k] = 0]_vars

\* C17 witness: the counter has wrapped and, counting the failed call, is
\* back at 1.
C17_Witness ==
  /\ fetches["IdU8"] = Modulus("IdU8") /\ Counter("IdU8") = 1
  /\ \E t \in Threads : res[t] = "panic" /\ pc[t] = "idle"
  /\ IssuedOfType("IdU8") # {}

\* C18: when exactly 2^8 calls of the 8 bit type's new() have been made from
\* the fresh counter, by any threads in any interleaving, and have ended,
\* exactly one of them has failed, the one that drew 0, and the other 255
\* have returned the values 1..255, each once; the failing call neither keeps
\* a call in flight from returning nor takes back what was returned.
C18_OneFails ==
  /\ []((fetches["IdU8"] = Modulus("IdU8") /\ Quiescent("IdU8")) =>
          /\ IssuedOfType("IdU8") = 1..(Modulus("IdU8") - 1)
          /\ ReturnedOfType("IdU8", Markers) = Modulus("IdU8") - 1
          /\ \E t \in Threads : res[t] = "panic" /\ seq[t] = Modulus("IdU8")
          /\ \A t \in Threads : res[t] = "panic" => seq[t] = Modulus("IdU8"))
  /\ [](\A u \in Threads :
          (pc[u] = "fetched" /\ id[u] # 0 /\ ~aborted) => ENABLED NewReturn(u))
  /\ [][\A t \in Threads :
          (pc[t] = "fetched" /\ res'[t] = "panic") =>
            /\ issued' = issued /\ nret' = nret /\ NEXT_ID' = NEXT_ID
            /\ \A u \in Threads \ {t} : self'[u] = self[u] /\ pc'[u] = pc[u]]_vars

\* C18 witness: the 2^8 calls have ended, both markers were returned values,
\* and a thread other than the failing one holds an identifier.
C18_Witness ==
  /\ fetches["IdU8"] = Modulus("IdU8") /\ Quiescent("IdU8") /\ ~aborted
  /\ ReturnedOfType("IdU8", Markers) = Modulus("IdU8") - 1
  /\ \A m \in Markers : Issued("IdU8", m) # {}
  /\ \E t, u \in Threads :
       /\ t # u /\ res[t] = "panic" /\ HoldsCounted(u)
       /\ seq[u] = Modulus("IdU8") - 2

====
